---------------------------- MODULE Spec2Model ----------------------------
(***************************************************************************)
(* A model of the revision tree of src/Cpp/RevTree.cc.                     *)
(*                                                                         *)
(* Byte strings (revision IDs, bodies) are sequences of byte values.       *)
(* Node indexes are 0-based as in the source; node i of the vector is      *)
(* nodes[i+1].  A node marked for removal has a revID of size 0.           *)
(***************************************************************************)
EXTENDS Integers, Sequences, FiniteSets

VARIABLES nodes,     \* RevTree::_nodes
          sorted,    \* RevTree::_sorted
          changed,   \* RevTree::_changed
          bodyOffset,\* RevTree::_bodyOffset
          fault,     \* "ok", or how the process stopped: "crashed" / "hung"
          calls,     \* the number of calls made on the tree so far
          call,      \* the call being looked at: operation, arguments, result
          pre        \* the tree as it was when that call was made

vars == <<nodes, sorted, changed, bodyOffset, fault, calls, call, pre>>

-----------------------------------------------------------------------------
(* Bounds of the model *)

MaxNodes == 3       \* the model makes no call that leaves more nodes than this
MaxCalls == 5       \* the model makes no more calls than this on a tree
MaxTameCalls == 6   \* the same, on the builds that stop at every wild access
MaxHistory == 3     \* longest history given to insertHistory
MaxPurge == 2       \* longest list given to purge
MaxDepthArg == 2    \* largest maxDepth given to prune
MaxSequence == 1    \* largest sequence given to decode
MaxDocOffset == 1   \* decode is given the offsets 0, 200, ..., 200 * MaxDocOffset
MaxRevIDLen == 4    \* longest byte string given to compareRevIDs
MaxPlainLen == 1    \* longest third byte string given to it, compared with two others
MaxLargeNodes == 5  \* most nodes of the tree that is grown by insertions only
MaxLargeCalls == 4  \* the model makes no more calls than this on that tree

-----------------------------------------------------------------------------
(* Program constants *)

kNoParent == 65535

kLeaf == "Leaf"
kDeleted == "Deleted"
kNew == "New"

Null == -1          \* a NULL RevNode pointer, as a returned node index

nullslice == << >>  \* a slice with no buffer

chDash == 45        \* '-'
ch0 == 48           \* '0'
ch9 == 57           \* '9'

-----------------------------------------------------------------------------
(* Revision IDs *)

isdigit(c) == c >= ch0 /\ c <= ch9

RECURSIVE parseDigitsFrom(_, _, _)
parseDigitsFrom(str, pos, result) ==
    IF pos > Len(str) THEN result
    ELSE IF ~isdigit(str[pos]) THEN 0
    ELSE parseDigitsFrom(str, pos + 1, 10 * result + (str[pos] - ch0))

\* Parses the bytes of str as an ASCII number; 0 if a non-digit is found.
\* RevIDParse gives it at most 8 bytes, so the uint32_t result cannot wrap.
parseDigits(str) == parseDigitsFrom(str, 1, 0)

\* memchr(rev.buf, '-', rev.size): 1-based position of the first dash, 0 if none
memchrDash(rev) ==
    IF \E p \in 1..Len(rev) : rev[p] = chDash
    THEN CHOOSE p \in 1..Len(rev) :
            rev[p] = chDash /\ \A q \in 1..(p - 1) : rev[q] # chDash
    ELSE 0

NoParse == [ok |-> FALSE, gen |-> 0, digest |-> << >>]

RevIDParse(rev) ==
    LET dash == memchrDash(rev)
        dashPos == dash - 1
    IN  IF dash = 0 \/ dash = 1 THEN NoParse
        ELSE IF dashPos > 8 \/ dashPos >= Len(rev) - 1 THEN NoParse
        ELSE LET generation == parseDigits(SubSeq(rev, 1, dashPos))
             IN  IF generation = 0 THEN NoParse
                 ELSE [ok |-> TRUE, gen |-> generation,
                       digest |-> SubSeq(rev, dash + 1, Len(rev))]

\* rev is not empty
RevIDParseCompacted(rev) ==
    LET gen == rev[1]
    IN  IF isdigit(gen) THEN RevIDParse(rev)
        ELSE [ok |-> TRUE,
              gen |-> IF gen > ch9 THEN gen - 10 ELSE gen,
              digest |-> SubSeq(rev, 2, Len(rev))]

-----------------------------------------------------------------------------
(* Nodes and accessors *)

isLeaf(node) == kLeaf \in node.flags
isDeleted(node) == kDeleted \in node.flags
isNew(node) == kNew \in node.flags
isActive(node) == isLeaf(node) /\ ~isDeleted(node)

\* the node at (0-based) index i of the vector ns
At(ns, i) == ns[i + 1]

InRange(ns, i) == i >= 0 /\ i < Len(ns)

\* RevTree::get(slice): index of the first node whose revID equals revID, or Null
get(ns, revID) ==
    IF \E i \in 0..(Len(ns) - 1) : At(ns, i).revID = revID
    THEN CHOOSE i \in 0..(Len(ns) - 1) :
            At(ns, i).revID = revID
            /\ \A j \in 0..(i - 1) : At(ns, j).revID # revID
    ELSE Null

\* RevTree::hasConflict
hasConflict(ns, srt) ==
    IF Len(ns) < 2 THEN FALSE
    ELSE IF srt THEN isActive(At(ns, 1))
    ELSE Cardinality({i \in 0..(Len(ns) - 1) : isActive(At(ns, i))}) > 1

-----------------------------------------------------------------------------
(* Results of an operation: the tree it leaves, what it returns and         *)
(* whether the process is still running afterwards.                         *)

Outcome(ns, srt, chg, ret) ==
    [nodes |-> ns, sorted |-> srt, changed |-> chg, ret |-> ret, fault |-> "ok"]

\* the process stopped inside the call: the tree is not observed again
Stopped(how) ==
    [nodes |-> nodes, sorted |-> sorted, changed |-> changed, ret |-> Null, fault |-> how]

-----------------------------------------------------------------------------
(* Insertion *)

NewNode(revID, data, parentIndex, deleted) ==
    [revID |-> revID, data |-> data, sequence |-> 0, oldBodyOffset |-> 0,
     flags |-> {kLeaf, kNew} \cup (IF deleted THEN {kDeleted} ELSE {}),
     parentIndex |-> parentIndex]

\* _insert leaving the Leaf flag of the parent set
_insert_KeepLeaf(ns, revID, data, parentNode, deleted) ==
    LET parentIndex == IF parentNode = Null THEN kNoParent ELSE parentNode % 65536
    IN  Append(ns, NewNode(revID, data, parentIndex, deleted))

\* RevTree::_insert: the node vector after the insertion.  parentNode is the
\* index of the node the parent pointer refers to, or Null; a pointer past the
\* end of the vector has its flags written outside the vector.
_insert(ns, revID, data, parentNode, deleted) ==
    LET cleared == IF parentNode # Null /\ InRange(ns, parentNode)
                   THEN [ns EXCEPT ![parentNode + 1].flags = @ \ {kLeaf}]
                   ELSE ns
        parentIndex == IF parentNode = Null THEN kNoParent ELSE parentNode % 65536
    IN  Append(cleared, NewNode(revID, data, parentIndex, deleted))

\* _sorted after _insert
sortedAfterInsert(ns, srt) == IF Len(ns) > 1 THEN FALSE ELSE srt

\* insertNode marking the tree changed before it has checked the generation
insertNode_EarlyChange(ns, srt, chg, revID, data, deleted, parent, allowConflict) ==
    LET new == RevIDParseCompacted(revID)
        par == IF parent # Null THEN RevIDParseCompacted(At(ns, parent).revID)
               ELSE [ok |-> TRUE, gen |-> 0, digest |-> << >>]
        failed == Outcome(ns, srt, chg, Null)
    IN  IF ~new.ok THEN failed
        ELSE IF parent # Null /\ ~allowConflict /\ ~isLeaf(At(ns, parent)) THEN failed
        ELSE IF parent # Null /\ ~par.ok THEN failed
        ELSE IF parent = Null /\ ~allowConflict /\ Len(ns) > 0 THEN failed
        ELSE IF new.gen # par.gen + 1 THEN Outcome(ns, srt, TRUE, Null)
        ELSE LET ns2 == _insert(ns, revID, data, parent, deleted)
             IN  Outcome(ns2, sortedAfterInsert(ns2, srt), TRUE, Len(ns2) - 1)

\* insertNode without the check that the parent is a leaf
insertNode_AnyParent(ns, srt, chg, revID, data, deleted, parent, allowConflict) ==
    LET new == RevIDParseCompacted(revID)
        par == IF parent # Null THEN RevIDParseCompacted(At(ns, parent).revID)
               ELSE [ok |-> TRUE, gen |-> 0, digest |-> << >>]
        failed == Outcome(ns, srt, chg, Null)
    IN  IF ~new.ok THEN failed
        ELSE IF parent # Null /\ ~par.ok THEN failed
        ELSE IF parent = Null /\ ~allowConflict /\ Len(ns) > 0 THEN failed
        ELSE IF new.gen # par.gen + 1 THEN failed
        ELSE LET ns2 == _insert(ns, revID, data, parent, deleted)
             IN  Outcome(ns2, sortedAfterInsert(ns2, srt), TRUE, Len(ns2) - 1)

\* RevTree::insert(slice revID, slice data, bool deleted, const RevNode* parent,
\* bool allowConflict); parent is a node index or Null
insertNode(ns, srt, chg, revID, data, deleted, parent, allowConflict) ==
    LET new == RevIDParseCompacted(revID)
        par == IF parent # Null THEN RevIDParseCompacted(At(ns, parent).revID)
               ELSE [ok |-> TRUE, gen |-> 0, digest |-> << >>]
        failed == Outcome(ns, srt, chg, Null)
    IN  IF ~new.ok THEN failed
        ELSE IF parent # Null /\ ~allowConflict /\ ~isLeaf(At(ns, parent)) THEN failed
        ELSE IF parent # Null /\ ~par.ok THEN failed
        ELSE IF parent = Null /\ ~allowConflict /\ Len(ns) > 0 THEN failed
        ELSE IF new.gen # par.gen + 1 THEN failed     \* below 10^8: no uint32_t wrap
        ELSE LET ns2 == _insert(ns, revID, data, parent, deleted)
             IN  Outcome(ns2, sortedAfterInsert(ns2, srt), TRUE, Len(ns2) - 1)

\* RevTree::insert(slice revID, slice body, bool deleted, slice parentRevID,
\* bool allowConflict)
insert(ns, srt, chg, revID, body, deleted, parentRevID, allowConflict) ==
    IF get(ns, revID) # Null THEN Outcome(ns, srt, chg, Null)
    ELSE IF parentRevID # nullslice /\ get(ns, parentRevID) = Null
         THEN Outcome(ns, srt, chg, Null)
    ELSE insertNode(ns, srt, chg, revID, body, deleted,
                    IF parentRevID # nullslice THEN get(ns, parentRevID) ELSE Null,
                    allowConflict)

-----------------------------------------------------------------------------
(* Reads outside an array *)

\* What a uint16_t read outside an array may give: an index into the vector,
\* an index beyond it, or kNoParent itself.
Garbage == {0, MaxNodes, kNoParent}

\* How a build resolves the undefined accesses: the values that reads outside
\* an array may give, and whether the process may survive an access to a node
\* outside the vector.  Every such access may also end the process.  calls is
\* the number of calls the model follows the build for.
AnyBuild == [garbage |-> Garbage, survives |-> TRUE, calls |-> MaxCalls]

\* A build whose assertions and bounds checks end the process at every access
\* to a node outside the vector.
CheckedBuild == [garbage |-> Garbage, survives |-> FALSE, calls |-> MaxTameCalls]

\* The most forgiving build: as CheckedBuild, and what lies outside the arrays
\* happens to be kNoParent.
TameBuild == [garbage |-> {kNoParent}, survives |-> FALSE, calls |-> MaxTameCalls]

\* the results of an operation whose results are outs if it has made no access
\* outside the vector (wildNode) or outside an array (wildRead), under build u
OrCrash(outs, wildNode, wildRead, u) ==
    (IF wildNode /\ ~u.survives THEN {} ELSE outs)
        \cup (IF wildNode \/ wildRead THEN {Stopped("crashed")} ELSE {})

-----------------------------------------------------------------------------
(* compact *)

marked(node) == Len(node.revID) = 0

\* map[i] of RevTree::compact, for i inside the vector
compactMap(ns, i) ==
    IF marked(At(ns, i)) THEN kNoParent
    ELSE Cardinality({j \in 0..(i - 1) : ~marked(At(ns, j))})

\* the parent indexes that compact looks up outside map[]
compactWild(ns) ==
    {At(ns, i).parentIndex : i \in {j \in 0..(Len(ns) - 1) :
        ~marked(At(ns, j)) /\ ~InRange(ns, At(ns, j).parentIndex)}}

RECURSIVE slide(_, _, _)
\* the surviving nodes of ns from index i on, renumbered; g gives what the reads
\* outside map[] returned
slide(ns, i, g) ==
    IF i >= Len(ns) THEN << >>
    ELSE IF marked(At(ns, i)) THEN slide(ns, i + 1, g)
    ELSE LET p == At(ns, i).parentIndex
             q == IF InRange(ns, p) THEN compactMap(ns, p) ELSE g[p]
         IN  <<[At(ns, i) EXCEPT !.parentIndex = q]>> \o slide(ns, i + 1, g)

\* RevTree::compact: the node vectors it may leave
compact(ns, u) == {slide(ns, 0, g) : g \in [compactWild(ns) -> u.garbage]}

-----------------------------------------------------------------------------
(* prune *)

RECURSIVE ancestry(_, _, _, _, _)
\* the inner loop of RevTree::prune, at ancestor anc (inside the vector) which
\* is the depth-th node visited of this walk
ancestry(ns, anc, depth, maxDepth, numPruned) ==
    LET over == depth > maxDepth
        ns2 == IF over THEN [ns EXCEPT ![anc + 1].revID = << >>] ELSE ns
        n2 == IF over THEN numPruned + 1 ELSE numPruned
        parent == At(ns, anc).parentIndex
    IN  IF depth > Len(ns) THEN [nodes |-> ns, numPruned |-> numPruned, end |-> "cycle"]
        ELSE IF parent = kNoParent THEN [nodes |-> ns2, numPruned |-> n2, end |-> "root"]
        ELSE IF ~InRange(ns, parent)
             THEN \* the walk goes on at a node outside the vector and ends there
                  [nodes |-> ns2,
                   numPruned |-> IF depth + 1 > maxDepth THEN n2 + 1 ELSE n2,
                   end |-> "wild"]
        ELSE ancestry(ns2, parent, depth + 1, maxDepth, n2)

RECURSIVE pruneFrom(_, _, _, _, _, _)
\* the outer loop of RevTree::prune from node i on
pruneFrom(ns, srt, i, maxDepth, numPruned, wild) ==
    IF i >= Len(ns) THEN [nodes |-> ns, numPruned |-> numPruned, wild |-> wild, hung |-> FALSE]
    ELSE IF isLeaf(At(ns, i))
         THEN LET w == ancestry(ns, i, 1, maxDepth, numPruned)
              IN  IF w.end = "cycle"
                  THEN [nodes |-> ns, numPruned |-> numPruned, wild |-> wild, hung |-> TRUE]
                  ELSE pruneFrom(w.nodes, srt, i + 1, maxDepth, w.numPruned,
                                 wild \/ w.end = "wild")
    ELSE IF srt THEN [nodes |-> ns, numPruned |-> numPruned, wild |-> wild, hung |-> FALSE]
    ELSE pruneFrom(ns, srt, i + 1, maxDepth, numPruned, wild)

\* RevTree::prune: the outcomes it may have
prune(ns, srt, chg, maxDepth, u) ==
    IF maxDepth = 0 \/ Len(ns) <= maxDepth THEN {Outcome(ns, srt, chg, 0)}
    ELSE LET r == pruneFrom(ns, srt, 0, maxDepth, 0, FALSE)
         IN  IF r.hung THEN {Stopped("hung")}
             ELSE IF r.numPruned > 0
                  THEN OrCrash({Outcome(c, srt, TRUE, r.numPruned) : c \in compact(r.nodes, u)},
                               r.wild, compactWild(r.nodes) # {}, u)
             ELSE OrCrash({Outcome(r.nodes, srt, chg, r.numPruned)}, r.wild, FALSE, u)

-----------------------------------------------------------------------------
(* purge *)

RECURSIVE purgePass(_, _)
\* one pass of the for loop of RevTree::purge, from entry k (1-based) of revIDs on
purgePass(st, k) ==
    IF k > Len(st.revIDs) THEN st
    ELSE LET node == get(st.nodes, st.revIDs[k])
         IN  IF node = Null THEN purgePass(st, k + 1)
             ELSE IF isLeaf(At(st.nodes, node))
                  THEN LET parent == At(st.nodes, node).parentIndex
                           ns1 == [st.nodes EXCEPT ![node + 1].revID = << >>]
                           ns2 == IF parent # kNoParent /\ InRange(ns1, parent)
                                  THEN [ns1 EXCEPT ![parent + 1].flags = @ \cup {kLeaf}]
                                  ELSE ns1
                       IN  purgePass([st EXCEPT !.nodes = ns2,
                                                !.revIDs[k] = << >>,
                                                !.numPurged = @ + 1,
                                                !.madeProgress = TRUE,
                                                !.wild = @ \/ (parent # kNoParent
                                                               /\ ~InRange(ns1, parent))],
                                     k + 1)
             ELSE purgePass([st EXCEPT !.foundNonLeaf = TRUE], k + 1)

RECURSIVE purgeLoop(_)
\* the do-while loop of RevTree::purge.  A pass that asks for another pass and
\* has changed neither the nodes nor revIDs is repeated for ever.
purgeLoop(st) ==
    LET after == purgePass([st EXCEPT !.madeProgress = FALSE, !.foundNonLeaf = FALSE], 1)
    IN  IF after.madeProgress /\ after.foundNonLeaf
        THEN IF after.nodes = st.nodes /\ after.revIDs = st.revIDs
             THEN [after EXCEPT !.hung = TRUE]
             ELSE purgeLoop(after)
        ELSE after

\* RevTree::purge: the outcomes it may have
purge(ns, srt, chg, revIDs, u) ==
    LET r == purgeLoop([nodes |-> ns, revIDs |-> revIDs, numPurged |-> 0,
                        madeProgress |-> FALSE, foundNonLeaf |-> FALSE,
                        wild |-> FALSE, hung |-> FALSE])
    IN  IF r.hung THEN {Stopped("hung")}
        ELSE IF r.numPurged > 0
             THEN OrCrash({Outcome(c, srt, TRUE, r.numPurged) : c \in compact(r.nodes, u)},
                          r.wild, compactWild(r.nodes) # {}, u)
        ELSE OrCrash({Outcome(r.nodes, srt, chg, r.numPurged)}, r.wild, FALSE, u)

-----------------------------------------------------------------------------
(* insertHistory *)

RECURSIVE findCommonAncestor(_, _, _, _)
\* the first loop of RevTree::insertHistory from entry i (0-based) on: the index
\* it stops at, or -1
findCommonAncestor(ns, history, i, lastGen) ==
    IF i >= Len(history) THEN i
    ELSE LET p == RevIDParseCompacted(history[i + 1])
         IN  IF ~p.ok THEN -1
             ELSE IF lastGen > 0 /\ p.gen # lastGen - 1 THEN -1
             ELSE IF get(ns, history[i + 1]) # Null THEN i
             ELSE findCommonAncestor(ns, history, i + 1, p.gen)

RECURSIVE insertChain(_, _, _, _, _, _)
\* the second loop of RevTree::insertHistory: inserts history[i], ..., history[0],
\* the first of them under get(parentIndex)
insertChain(ns, history, i, parentIndex, data, deleted) ==
    IF i < 0 THEN ns
    ELSE LET ns2 == _insert(ns, history[i + 1],
                            IF i = 0 THEN data ELSE nullslice,
                            parentIndex,
                            i = 0 /\ deleted)
         IN  insertChain(ns2, history, i - 1, Len(ns2) - 1, data, deleted)

\* insertHistory inserting the revisions it has seen before it finds that the
\* generations of the history do not go down by 1
insertHistory_InsertFirst(ns, srt, chg, history, data, deleted, u) ==
    LET commonAncestorIndex == findCommonAncestor(ns, history, 0, 0)
    IN  IF commonAncestorIndex > 0
        THEN LET ns2 == insertChain(ns, history, commonAncestorIndex - 1,
                                    commonAncestorIndex, data, deleted)
             IN  OrCrash({Outcome(ns2, sortedAfterInsert(ns2, srt), TRUE,
                                  commonAncestorIndex)},
                         ~InRange(ns, commonAncestorIndex), FALSE, u)
        ELSE IF commonAncestorIndex = -1 /\ RevIDParseCompacted(history[1]).ok
                /\ get(ns, history[1]) = Null
             THEN LET ns2 == _insert(ns, history[1], data, Null, deleted)
                  IN  {Outcome(ns2, sortedAfterInsert(ns2, srt), TRUE, -1)}
        ELSE {Outcome(ns, srt, chg, commonAncestorIndex)}

\* RevTree::insertHistory: the outcomes it may have.  get(commonAncestorIndex)
\* points outside the vector when the vector has no such index; indexOf then
\* fails its assertion, or, built without assertions, lets _insert go on.
insertHistory(ns, srt, chg, history, data, deleted, u) ==
    LET commonAncestorIndex == findCommonAncestor(ns, history, 0, 0)
    IN  IF commonAncestorIndex > 0
        THEN LET ns2 == insertChain(ns, history, commonAncestorIndex - 1,
                                    commonAncestorIndex, data, deleted)
             IN  OrCrash({Outcome(ns2, sortedAfterInsert(ns2, srt), TRUE,
                                  commonAncestorIndex)},
                         ~InRange(ns, commonAncestorIndex), FALSE, u)
        ELSE {Outcome(ns, srt, chg, commonAncestorIndex)}

-----------------------------------------------------------------------------
(* Sorting *)

Sign(x) == IF x > 0 THEN 1 ELSE IF x < 0 THEN -1 ELSE 0

RECURSIVE sliceCompareFrom(_, _, _)
sliceCompareFrom(a, b, pos) ==
    IF pos > Len(a) \/ pos > Len(b) THEN Sign(Len(a) - Len(b))
    ELSE IF a[pos] # b[pos] THEN Sign(a[pos] - b[pos])
    ELSE sliceCompareFrom(a, b, pos + 1)

\* slice::compare: the order of the bytes, then of the sizes
sliceCompare(a, b) == sliceCompareFrom(a, b, 1)

\* compareRevIDs looking only at whether its first argument parses
compareRevIDs_FirstOnly(rev1, rev2) ==
    LET p1 == RevIDParse(rev1)
        p2 == RevIDParse(rev2)
    IN  IF ~p1.ok THEN sliceCompare(rev1, rev2)
        ELSE IF p1.gen > p2.gen THEN 1
        ELSE IF p1.gen < p2.gen THEN -1
        ELSE sliceCompare(p1.digest, p2.digest)

compareRevIDs(rev1, rev2) ==
    LET p1 == RevIDParse(rev1)
        p2 == RevIDParse(rev2)
    IN  IF ~p1.ok \/ ~p2.ok THEN sliceCompare(rev1, rev2)
        ELSE IF p1.gen > p2.gen THEN 1
        ELSE IF p1.gen < p2.gen THEN -1
        ELSE sliceCompare(p1.digest, p2.digest)

Bit(b) == IF b THEN 1 ELSE 0

\* RevNode::compare
compare(this, rev2) ==
    LET delta1 == Bit(isLeaf(rev2)) - Bit(isLeaf(this))
        delta2 == Bit(isDeleted(this)) - Bit(isDeleted(rev2))
    IN  IF delta1 # 0 THEN delta1
        ELSE IF delta2 # 0 THEN delta2
        ELSE compareRevIDs(rev2.revID, this.revID)

Orderings(n) == {f \in [1..n -> 1..n] : \A i, j \in 1..n : i # j => f[i] # f[j]}

\* std::sort: the orders it may leave the nodes in; perm[i] is the 1-based old
\* position of the node that ends at position i
sortOrders(ns) ==
    {perm \in Orderings(Len(ns)) :
        \A i \in 1..(Len(ns) - 1) : ~(compare(ns[perm[i + 1]], ns[perm[i]]) < 0)}

\* the old parent indexes that sort looks up outside oldToNew[]
sortWild(ns) ==
    {ns[i].parentIndex : i \in {j \in 1..Len(ns) :
        ns[j].parentIndex # kNoParent /\ ~InRange(ns, ns[j].parentIndex)}}

\* the vector after std::sort and the renumbering of the parent indexes
sortedBy(ns, perm, g) ==
    [i \in 1..Len(ns) |->
        LET oldIndex == perm[i] - 1
            parent == At(ns, oldIndex).parentIndex
            oldToNew == CHOOSE k \in 1..Len(ns) : perm[k] - 1 = parent
        IN  [At(ns, oldIndex) EXCEPT !.parentIndex =
                IF parent = kNoParent THEN kNoParent
                ELSE IF InRange(ns, parent) THEN oldToNew - 1
                ELSE g[parent]]]

\* RevTree::sort: the outcomes it may have
sort(ns, srt, chg, u) ==
    IF srt THEN {Outcome(ns, srt, chg, 0)}
    ELSE OrCrash({Outcome(sortedBy(ns, perm, g), TRUE, chg, 0) :
                     perm \in sortOrders(ns), g \in [sortWild(ns) -> u.garbage]},
                 FALSE, sortWild(ns) # {}, u)

-----------------------------------------------------------------------------
(* The encoded form.  An encoded tree is a sequence of raw nodes followed   *)
(* by a raw node of size 0.  A raw node is its fixed header (size,          *)
(* parentIndex, flags, revIDLen) and the bytes after the header: the revID, *)
(* the sequence as a varint, then the body or the body offset as a varint.  *)

kRevNodeHasData == "HasData"
kRevNodeHasBodyOffset == "HasBodyOffset"
kRevNodePublicPersistentFlags == {kLeaf, kDeleted}

\* offsetof(RawRevNode, revID): uint32_t size, uint16_t parentIndex, flags, revIDLen
kRawHeaderSize == 8

RECURSIVE PutUVarInt(_)
\* the bytes of n as a varint: 7 bits a byte, lowest first, the top bit set on
\* every byte but the last
PutUVarInt(n) ==
    IF n < 128 THEN <<n>>
    ELSE <<128 + (n % 128)>> \o PutUVarInt(n \div 128)

SizeOfVarInt(n) == Len(PutUVarInt(n))

RECURSIVE getUVarIntFrom(_, _, _, _)
getUVarIntFrom(buf, pos, unit, result) ==
    IF pos > Len(buf) THEN [n |-> 0, nBytes |-> 0]      \* no end of the varint
    ELSE IF buf[pos] >= 128
         THEN getUVarIntFrom(buf, pos + 1, unit * 128, result + (buf[pos] - 128) * unit)
    ELSE [n |-> result + buf[pos] * unit, nBytes |-> pos]

\* the number at the start of buf and how many bytes it takes
GetUVarInt(buf) == getUVarIntFrom(buf, 1, 1, 0)

sizeForRawNode(node) ==
    kRawHeaderSize + Len(node.revID) + SizeOfVarInt(node.sequence)
        + (IF Len(node.data) > 0 THEN Len(node.data)
           ELSE IF node.oldBodyOffset > 0 THEN SizeOfVarInt(node.oldBodyOffset)
           ELSE 0)

\* pruneBody dropping the body of every node that is not a leaf, New or not
pruneBody_AlsoNew(node, bo) ==
    IF Len(node.data) > 0 /\ ~isLeaf(node)
    THEN [node EXCEPT !.data = << >>, !.oldBodyOffset = bo]
    ELSE node

\* the first loop of RevTree::encode, for one node
pruneBody(node, bo) ==
    IF Len(node.data) > 0 /\ ~(isLeaf(node) \/ isNew(node))
    THEN [node EXCEPT !.data = << >>, !.oldBodyOffset = bo]
    ELSE node

\* rawNodeFor writing every flag of the node, New among them
rawNodeFor_AllFlags(src, bo) ==
    LET flags == src.flags
                    \cup (IF Len(src.data) > 0 THEN {kRevNodeHasData}
                          ELSE IF src.oldBodyOffset > 0 THEN {kRevNodeHasBodyOffset}
                          ELSE {})
    IN  [size |-> sizeForRawNode(src),
         parentIndex |-> src.parentIndex,
         flags |-> flags,
         revIDLen |-> Len(src.revID) % 256,
         bytes |-> src.revID \o PutUVarInt(src.sequence)
                    \o (IF kRevNodeHasData \in flags THEN src.data
                        ELSE IF kRevNodeHasBodyOffset \in flags
                             THEN PutUVarInt(IF src.oldBodyOffset # 0
                                             THEN src.oldBodyOffset ELSE bo)
                        ELSE << >>)]

\* the second loop of RevTree::encode, for one node
rawNodeFor(src, bo) ==
    LET flags == (src.flags \cap kRevNodePublicPersistentFlags)
                    \cup (IF Len(src.data) > 0 THEN {kRevNodeHasData}
                          ELSE IF src.oldBodyOffset > 0 THEN {kRevNodeHasBodyOffset}
                          ELSE {})
    IN  [size |-> sizeForRawNode(src),
         parentIndex |-> src.parentIndex,
         flags |-> flags,
         revIDLen |-> Len(src.revID) % 256,
         bytes |-> src.revID \o PutUVarInt(src.sequence)
                    \o (IF kRevNodeHasData \in flags THEN src.data
                        ELSE IF kRevNodeHasBodyOffset \in flags
                             THEN PutUVarInt(IF src.oldBodyOffset # 0
                                             THEN src.oldBodyOffset ELSE bo)
                        ELSE << >>)]

\* the trailing 0 size marker
endOfRawNodes == [size |-> 0]

\* RevTree::encode: the outcomes it may have; it returns the encoded tree
encode(ns, srt, chg, bo, u) ==
    {IF o.fault # "ok" THEN o
     ELSE LET pruned == [i \in 1..Len(o.nodes) |-> pruneBody(o.nodes[i], bo)]
          IN  Outcome(pruned, o.sorted, chg,
                      [i \in 1..(Len(pruned) + 1) |->
                          IF i <= Len(pruned) THEN rawNodeFor(pruned[i], bo)
                          ELSE endOfRawNodes])
     : o \in sort(ns, srt, chg, u)}

\* raw always holds a raw node of size 0
countRawNodes(raw) ==
    (CHOOSE k \in 1..Len(raw) :
        raw[k].size = 0 /\ \A j \in 1..(k - 1) : raw[j].size > 0) - 1

nodeFromRawNode(src) ==
    LET end == src.size - kRawHeaderSize
        afterRevID == SubSeq(src.bytes, src.revIDLen + 1, end)
        sequence == GetUVarInt(afterRevID)
        data == SubSeq(afterRevID, sequence.nBytes + 1, Len(afterRevID))
    IN  [revID |-> SubSeq(src.bytes, 1, src.revIDLen),
         flags |-> src.flags \cap kRevNodePublicPersistentFlags,
         parentIndex |-> src.parentIndex,
         sequence |-> sequence.n,
         oldBodyOffset |-> IF kRevNodeHasData \notin src.flags
                              /\ kRevNodeHasBodyOffset \in src.flags
                           THEN GetUVarInt(data).n ELSE 0,
         data |-> IF kRevNodeHasData \in src.flags THEN data ELSE << >>]

\* decodedNodes leaving the sequence 0 where the raw node has it
decodedNodes_KeepZero(raw, seq) ==
    [i \in 1..countRawNodes(raw) |-> nodeFromRawNode(raw[i])]

\* the nodes RevTree::decode fills the vector with
decodedNodes(raw, seq) ==
    [i \in 1..countRawNodes(raw) |->
        LET node == nodeFromRawNode(raw[i])
        IN  IF node.sequence = 0 THEN [node EXCEPT !.sequence = seq] ELSE node]

\* RevTree::RevTree(slice raw_tree, sequence seq, uint64_t docOffset): the new
\* tree, or the error thrown when the walk does not end at the last raw node
decode(raw, seq, docOffset) ==
    IF countRawNodes(raw) + 1 # Len(raw)
    THEN [nodes |-> decodedNodes(raw, seq), sorted |-> TRUE, changed |-> FALSE,
          bodyOffset |-> 0, fault |-> "corrupt"]
    ELSE [nodes |-> decodedNodes(raw, seq), sorted |-> TRUE, changed |-> FALSE,
          bodyOffset |-> 0, fault |-> "ok"]

-----------------------------------------------------------------------------
(* Inputs of the model *)

id1a == <<49, 45, 97>>      \* "1-a"
id2a == <<50, 45, 97>>      \* "2-a"
id2b == <<2, 98>>           \* compacted form: generation byte 2, suffix "b"
id3a == <<51, 45, 97>>      \* "3-a"
idBad == <<49, 45>>         \* "1-": nothing after the dash, does not parse
idHigh == <<97>>            \* "a": compacted form of generation 87
idZero == <<0, 98>>         \* compacted form: generation byte 0, suffix "b"

TreeIDs == {id1a, id2a, id2b, id3a}
InsertIDs == TreeIDs \cup {idBad, idHigh}
ParentIDs == TreeIDs \cup {nullslice}

\* What a revision holds is fixed by its ID: id2b is a deletion, the others
\* have a body.
bodyOf(revID) == IF revID = id2b THEN << >> ELSE <<120>>
deletedOf(revID) == revID = id2b

SeqsUpTo(S, n) == UNION {[1..k -> S] : k \in 1..n}

\* a newest-first history: every entry parses and the generations go down by 1
Descending(history) ==
    /\ \A i \in 1..Len(history) : RevIDParseCompacted(history[i]).ok
    /\ \A i \in 1..(Len(history) - 1) :
          RevIDParseCompacted(history[i + 1]).gen = RevIDParseCompacted(history[i]).gen - 1

Histories ==
    {h \in SeqsUpTo(TreeIDs, MaxHistory) : Descending(h)}
        \cup {<<id2a, idBad>>, <<id3a, id1a>>}

\* also a history whose entries have the generation 0
LargeHistories == Histories \cup {<<idZero, idZero>>}

PurgeLists == SeqsUpTo(TreeIDs, MaxPurge)

Sequences == 0..MaxSequence

\* the bytes of the strings given to compareRevIDs: '0', '1' and '-'
CompareBytes == {ch0, ch0 + 1, chDash}
ByteStrings(n) == UNION {[1..k -> CompareBytes] : k \in 0..n}
DocOffsets == {200 * k : k \in 0..MaxDocOffset}

-----------------------------------------------------------------------------
(* The state machine: one tree, one call at a time *)

Snapshot == [nodes |-> nodes, sorted |-> sorted, changed |-> changed]

\* no call is being looked at
NoCall == [op |-> "none", args |-> << >>, ret |-> Null]
NoTree == [nodes |-> << >>, sorted |-> TRUE, changed |-> FALSE]

Init ==
    /\ nodes = << >>
    /\ sorted = TRUE
    /\ changed = FALSE
    /\ bodyOffset = 0
    /\ fault = "ok"
    /\ calls = 0
    /\ call = NoCall
    /\ pre = NoTree

\* the process is running, no call is being looked at and build u may make
\* another call
Idle(u) == fault = "ok" /\ call.op = "none" /\ calls < u.calls

\* the call op(args) is made and ends as out
Does(op, args, out) ==
    /\ Len(out.nodes) <= MaxNodes
    /\ nodes' = out.nodes
    /\ sorted' = out.sorted
    /\ changed' = out.changed
    /\ bodyOffset' = bodyOffset
    /\ fault' = out.fault
    /\ calls' = calls + 1
    /\ call' = [op |-> op, args |-> args, ret |-> out.ret]
    /\ pre' = Snapshot

Forget ==
    /\ fault = "ok"
    /\ call.op # "none"
    /\ call' = NoCall
    /\ pre' = NoTree
    /\ UNCHANGED <<nodes, sorted, changed, bodyOffset, fault, calls>>

InsertOn(u) ==
    /\ Idle(u)
    /\ \E revID \in InsertIDs, parentRevID \in ParentIDs, allowConflict \in BOOLEAN :
        Does("insert",
             [revID |-> revID, body |-> bodyOf(revID), deleted |-> deletedOf(revID),
              parentRevID |-> parentRevID, allowConflict |-> allowConflict],
             insert(nodes, sorted, changed, revID, bodyOf(revID), deletedOf(revID),
                    parentRevID, allowConflict))

InsertHistoryOn(u) ==
    /\ Idle(u)
    /\ \E history \in Histories :
        \E out \in insertHistory(nodes, sorted, changed, history,
                                  bodyOf(history[1]), deletedOf(history[1]), u) :
            Does("insertHistory",
                 [history |-> history, body |-> bodyOf(history[1]),
                  deleted |-> deletedOf(history[1])], out)

PruneOn(u) ==
    /\ Idle(u)
    /\ \E maxDepth \in 0..MaxDepthArg :
        \E out \in prune(nodes, sorted, changed, maxDepth, u) :
            Does("prune", [maxDepth |-> maxDepth], out)

PurgeOn(u) ==
    /\ Idle(u)
    /\ \E revIDs \in PurgeLists :
        \E out \in purge(nodes, sorted, changed, revIDs, u) :
            Does("purge", [revIDs |-> revIDs], out)

SortOn(u) ==
    /\ Idle(u)
    /\ \E out \in sort(nodes, sorted, changed, u) :
        Does("sort", << >>, out)

Insert == InsertOn(AnyBuild)
HasConflictOn(u) ==
    /\ Idle(u)
    /\ Does("hasConflict", << >>,
            Outcome(nodes, sorted, changed, hasConflict(nodes, sorted)))

EncodeOn(u) ==
    /\ Idle(u)
    /\ \E out \in encode(nodes, sorted, changed, bodyOffset, u) :
        Does("encode", << >>, out)

\* a new tree is made of the encoded tree that encode has just returned, in the
\* place of the tree that was encoded
DecodeOn(u) ==
    /\ fault = "ok" /\ call.op = "encode" /\ calls < u.calls
    /\ \E seq \in Sequences, docOffset \in DocOffsets :
        LET tree == decode(call.ret, seq, docOffset)
        IN  /\ nodes' = tree.nodes
            /\ sorted' = tree.sorted
            /\ changed' = tree.changed
            /\ bodyOffset' = tree.bodyOffset
            /\ fault' = tree.fault
            /\ calls' = calls + 1
            /\ call' = [op |-> "decode",
                        args |-> [raw |-> call.ret, seq |-> seq, docOffset |-> docOffset],
                        ret |-> Null]
            /\ pre' = Snapshot

\* the tree that has just been made of an encoded tree is encoded again, no
\* other call coming in between
ReencodeOn(u) ==
    /\ fault = "ok" /\ call.op = "decode" /\ calls < u.calls
    /\ \E out \in encode(nodes, sorted, changed, bodyOffset, u) :
        /\ nodes' = out.nodes
        /\ sorted' = out.sorted
        /\ changed' = out.changed
        /\ bodyOffset' = bodyOffset
        /\ fault' = out.fault
        /\ calls' = calls + 1
        /\ call' = [op |-> "reencode", args |-> call.args, ret |-> out.ret]
        /\ pre' = Snapshot

InsertHistory == InsertHistoryOn(AnyBuild)
Prune == PruneOn(AnyBuild)
Purge == PurgeOn(AnyBuild)
Sort == SortOn(AnyBuild)
HasConflict == HasConflictOn(AnyBuild)
Encode == EncodeOn(AnyBuild)
Decode == DecodeOn(AnyBuild)
Reencode == ReencodeOn(AnyBuild)

Next ==
    \/ Insert
    \/ InsertHistory
    \/ Prune
    \/ Purge
    \/ Sort
    \/ HasConflict
    \/ Encode
    \/ Decode
    \/ Reencode
    \/ Forget

Spec == Init /\ [][Next]_vars

(* The same tree on a checked build *)

CheckedInsert == InsertOn(CheckedBuild)
CheckedInsertHistory == InsertHistoryOn(CheckedBuild)
CheckedPrune == PruneOn(CheckedBuild)
CheckedPurge == PurgeOn(CheckedBuild)
CheckedSort == SortOn(CheckedBuild)
CheckedHasConflict == HasConflictOn(CheckedBuild)
CheckedEncode == EncodeOn(CheckedBuild)
CheckedDecode == DecodeOn(CheckedBuild)
CheckedReencode == ReencodeOn(CheckedBuild)

NextChecked ==
    \/ CheckedInsert
    \/ CheckedInsertHistory
    \/ CheckedPrune
    \/ CheckedPurge
    \/ CheckedSort
    \/ CheckedHasConflict
    \/ CheckedEncode
    \/ CheckedDecode
    \/ CheckedReencode
    \/ Forget

SpecChecked == Init /\ [][NextChecked]_vars

(* The same tree on the most forgiving build *)

TameInsert == InsertOn(TameBuild)
TameInsertHistory == InsertHistoryOn(TameBuild)
TamePrune == PruneOn(TameBuild)
TamePurge == PurgeOn(TameBuild)
TameSort == SortOn(TameBuild)
TameHasConflict == HasConflictOn(TameBuild)
TameEncode == EncodeOn(TameBuild)
TameDecode == DecodeOn(TameBuild)
TameReencode == ReencodeOn(TameBuild)

NextTame ==
    \/ TameInsert
    \/ TameInsertHistory
    \/ TamePrune
    \/ TamePurge
    \/ TameSort
    \/ TameHasConflict
    \/ TameEncode
    \/ TameDecode
    \/ TameReencode
    \/ Forget

SpecTame == Init /\ [][NextTame]_vars

(* The tree grown by insertions only, up to MaxLargeNodes nodes, so that an  *)
(* index that insertHistory takes from its history can be one of a node    *)

LargeBuild == [garbage |-> {kNoParent}, survives |-> FALSE, calls |-> MaxLargeCalls]

DoesLarge(op, args, out) ==
    /\ Len(out.nodes) <= MaxLargeNodes
    /\ nodes' = out.nodes
    /\ sorted' = out.sorted
    /\ changed' = out.changed
    /\ bodyOffset' = bodyOffset
    /\ fault' = out.fault
    /\ calls' = calls + 1
    /\ call' = [op |-> op, args |-> args, ret |-> out.ret]
    /\ pre' = Snapshot

LargeInsert ==
    /\ Idle(LargeBuild)
    /\ \E revID \in InsertIDs, parentRevID \in ParentIDs, allowConflict \in BOOLEAN :
        DoesLarge("insert",
             [revID |-> revID, body |-> bodyOf(revID), deleted |-> deletedOf(revID),
              parentRevID |-> parentRevID, allowConflict |-> allowConflict],
             insert(nodes, sorted, changed, revID, bodyOf(revID), deletedOf(revID),
                    parentRevID, allowConflict))

LargeInsertHistory ==
    /\ Idle(LargeBuild)
    /\ \E history \in LargeHistories :
        \E out \in insertHistory(nodes, sorted, changed, history,
                                  bodyOf(history[1]), deletedOf(history[1]),
                                  LargeBuild) :
            DoesLarge("insertHistory",
                 [history |-> history, body |-> bodyOf(history[1]),
                  deleted |-> deletedOf(history[1])], out)

NextLarge ==
    \/ LargeInsert
    \/ LargeInsertHistory
    \/ Forget

SpecLarge == Init /\ [][NextLarge]_vars

(* compareRevIDs on its own: the call compares two byte strings both ways *)

CompareRevIDs ==
    /\ fault = "ok" /\ call.op = "none"
    /\ \E a \in ByteStrings(MaxRevIDLen), b \in ByteStrings(MaxRevIDLen) :
        call' = [op |-> "compareRevIDs", args |-> [a |-> a, b |-> b],
                 ret |-> [ab |-> compareRevIDs(a, b), ba |-> compareRevIDs(b, a)]]
    /\ UNCHANGED <<nodes, sorted, changed, bodyOffset, fault, calls, pre>>

NextCompare ==
    \/ CompareRevIDs
    \/ Forget

SpecCompare == Init /\ [][NextCompare]_vars

(* compareRevIDs on three byte strings, compared in a chain *)

CompareRevIDsChain ==
    /\ fault = "ok" /\ call.op = "none"
    /\ \E a \in ByteStrings(MaxRevIDLen), b \in ByteStrings(MaxRevIDLen),
          c \in ByteStrings(MaxPlainLen) :
        call' = [op |-> "compareRevIDs", args |-> [a |-> a, b |-> b, c |-> c],
                 ret |-> [ab |-> compareRevIDs(a, b), ba |-> compareRevIDs(b, a),
                          bc |-> compareRevIDs(b, c), cb |-> compareRevIDs(c, b),
                          ac |-> compareRevIDs(a, c), ca |-> compareRevIDs(c, a)]]
    /\ UNCHANGED <<nodes, sorted, changed, bodyOffset, fault, calls, pre>>

NextCompareChain ==
    \/ CompareRevIDsChain
    \/ Forget

SpecCompareChain == Init /\ [][NextCompareChain]_vars

-----------------------------------------------------------------------------
(* Helpers of the properties *)

\* the tree holds a node with this revision ID
Present(ns, revID) == \E i \in 1..Len(ns) : ns[i].revID = revID

\* the (0-based) indexes of the nodes of ns whose parentIndex is i
ChildrenOf(ns, i) == {j \in 0..(Len(ns) - 1) : At(ns, j).parentIndex = i}

gen(revID) == RevIDParseCompacted(revID).gen

Returned(op) == call.op = op /\ fault = "ok"

-----------------------------------------------------------------------------
(* C1: every parentIndex is kNoParent or an index strictly less than the    *)
(* number of nodes; a root that survives compact() still has kNoParent.     *)

C1_ParentIndexValid ==
    /\ \A i \in 1..Len(nodes) :
          nodes[i].parentIndex = kNoParent \/ InRange(nodes, nodes[i].parentIndex)
    /\ (Returned("purge") \/ Returned("prune")) /\ Len(nodes) < Len(pre.nodes) =>
          \A i \in 1..Len(nodes) :
             (\E j \in 1..Len(pre.nodes) :
                 pre.nodes[j].revID = nodes[i].revID /\ pre.nodes[j].parentIndex = kNoParent)
             => nodes[i].parentIndex = kNoParent

(* C2: a node carries the Leaf flag if and only if no node of the tree has  *)
(* it as its parentIndex.                                                   *)

C2_LeafIffNoChild ==
    \A i \in 0..(Len(nodes) - 1) :
        isLeaf(At(nodes, i)) <=> ChildrenOf(nodes, i) = {}

(* C3: every node with a parent has a generation exactly one greater than   *)
(* the generation of the node at its parentIndex.                           *)

C3_ChildGeneration ==
    \A i \in 1..Len(nodes) :
        nodes[i].parentIndex # kNoParent =>
            /\ InRange(nodes, nodes[i].parentIndex)
            /\ gen(nodes[i].revID) = gen(At(nodes, nodes[i].parentIndex).revID) + 1

(* C4: insertHistory, given a newest-first history whose generations go     *)
(* down by 1, returns the index k of the first entry already in the tree    *)
(* (the length of the history if there is none); when k > 0, afterwards     *)
(* every entry before k is in the tree, the parent of entry i is the node   *)
(* of entry i+1 for every i < k that has a next entry, and only entry 0     *)
(* carries the body and the Deleted flag.                                   *)

FirstPresent(ns, history) ==
    IF \E i \in 1..Len(history) : Present(ns, history[i])
    THEN (CHOOSE i \in 1..Len(history) :
             Present(ns, history[i]) /\ \A j \in 1..(i - 1) : ~Present(ns, history[j])) - 1
    ELSE Len(history)

C4_InsertHistoryChain ==
    Returned("insertHistory") /\ Descending(call.args.history) =>
        LET history == call.args.history
            k == FirstPresent(pre.nodes, history)
            nodeOf(i) == At(nodes, get(nodes, history[i + 1]))
        IN  /\ call.ret = k
            /\ k > 0 =>
                /\ \A i \in 0..(k - 1) : Present(nodes, history[i + 1])
                /\ \A i \in 0..(k - 1) : i + 1 < Len(history) =>
                      /\ InRange(nodes, nodeOf(i).parentIndex)
                      /\ At(nodes, nodeOf(i).parentIndex).revID = history[i + 2]
                /\ nodeOf(0).data = call.args.body
                /\ isDeleted(nodeOf(0)) = call.args.deleted
                /\ \A i \in 1..(k - 1) : nodeOf(i).data = << >> /\ ~isDeleted(nodeOf(i))

(* C5: an insert that fails (returns null) leaves the node vector, the      *)
(* sorted flag and the changed flag as they were.                           *)

C5_FailedInsertUnchanged ==
    Returned("insert") /\ call.ret = Null => Snapshot = pre

\* an insert under a parent of the wrong generation has failed on a tree that
\* had been changed before
C5_Witness ==
    /\ Returned("insert") /\ call.ret = Null
    /\ call.args.parentRevID # nullslice
    /\ Present(pre.nodes, call.args.parentRevID)
    /\ ~Present(pre.nodes, call.args.revID)
    /\ call.args.allowConflict
    /\ RevIDParseCompacted(call.args.revID).ok
    /\ gen(call.args.revID) # gen(call.args.parentRevID) + 1
    /\ pre.changed /\ ~pre.sorted

(* C6: insert succeeds exactly when the new ID is not in the tree, a given  *)
(* parent ID is in the tree, the new ID parses, a given parent is a leaf    *)
(* unless conflicts are allowed, the tree is empty when no parent is given  *)
(* unless conflicts are allowed, and the generation of the new ID is one    *)
(* more than the parent's (0 without a parent).                             *)

InsertAllowed(ns, a) ==
    LET given == a.parentRevID # nullslice
        parentGen == IF given THEN gen(a.parentRevID) ELSE 0
    IN  /\ ~Present(ns, a.revID)
        /\ given => Present(ns, a.parentRevID)
        /\ RevIDParseCompacted(a.revID).ok
        /\ given /\ ~a.allowConflict =>
              \A i \in 1..Len(ns) : ns[i].revID = a.parentRevID => isLeaf(ns[i])
        /\ ~given /\ ~a.allowConflict => Len(ns) = 0
        /\ gen(a.revID) = parentGen + 1

C6_InsertSucceedsIff ==
    Returned("insert") => (call.ret # Null <=> InsertAllowed(pre.nodes, call.args))

\* an insert without allowConflict has succeeded under a leaf of a tree that
\* also holds a node that is not a leaf
C6_Witness ==
    /\ Returned("insert") /\ call.ret # Null
    /\ call.args.parentRevID # nullslice
    /\ ~call.args.allowConflict
    /\ \E i \in 1..Len(pre.nodes) : ~isLeaf(pre.nodes[i])

(* C7: purge never removes a revision that still has a surviving            *)
(* descendant: every node that had a removed node as its parent is removed  *)
(* by the same call.                                                        *)

C7_PurgeKeepsAncestors ==
    Returned("purge") =>
        \A i \in 0..(Len(pre.nodes) - 1) :
            ~Present(nodes, At(pre.nodes, i).revID) =>
                \A j \in ChildrenOf(pre.nodes, i) : ~Present(nodes, At(pre.nodes, j).revID)

(* C8: purge terminates for every tree and every list of revision IDs.      *)

C8_PurgeTerminates == ~(call.op = "purge" /\ fault = "hung")

(* C9: the value purge returns is the number of nodes it has removed.       *)

C9_PurgeCount ==
    Returned("purge") => call.ret = Len(pre.nodes) - Len(nodes)

(* C10: the value prune returns is the number of nodes it has removed.      *)

C10_PruneCount ==
    Returned("prune") => call.ret = Len(pre.nodes) - Len(nodes)

(* C11: after prune(maxDepth) with maxDepth >= 1 returns, every node that   *)
(* was a leaf before the call is still in the tree, and the chain from      *)
(* every leaf through its parents to kNoParent has at most maxDepth nodes.  *)

RECURSIVE chainFrom(_, _, _)
\* the number of nodes from node i up to a root, node i being the n-th node of
\* the chain; more than Len(ns) if the chain does not end at kNoParent
chainFrom(ns, i, n) ==
    LET parent == At(ns, i).parentIndex
    IN  IF n > Len(ns) THEN n
        ELSE IF parent = kNoParent THEN n
        ELSE IF ~InRange(ns, parent) THEN Len(ns) + 1
        ELSE chainFrom(ns, parent, n + 1)

ChainLength(ns, i) == chainFrom(ns, i, 1)

C11_PruneKeepsLeaves ==
    Returned("prune") /\ call.args.maxDepth >= 1 =>
        /\ \A i \in 1..Len(pre.nodes) :
              isLeaf(pre.nodes[i]) => Present(nodes, pre.nodes[i].revID)
        /\ \A i \in 0..(Len(nodes) - 1) :
              isLeaf(At(nodes, i)) => ChainLength(nodes, i) <= call.args.maxDepth

(* C12: after sort() returns the vector is ordered leaves before            *)
(* non-leaves, then non-deleted before deleted, then descending revision    *)
(* ID; so nodes[0] is a non-deleted leaf whenever the tree has one, and no  *)
(* other non-deleted leaf has a higher revision ID.                         *)

\* node a may stand before node b
MayPrecede(a, b) ==
    IF isLeaf(a) # isLeaf(b) THEN isLeaf(a)
    ELSE IF isDeleted(a) # isDeleted(b) THEN ~isDeleted(a)
    ELSE compareRevIDs(a.revID, b.revID) >= 0

C12_SortOrder ==
    Returned("sort") =>
        /\ \A i, j \in 1..Len(nodes) : i < j => MayPrecede(nodes[i], nodes[j])
        /\ (\E i \in 1..Len(nodes) : isActive(nodes[i])) =>
              /\ isActive(nodes[1])
              /\ \A i \in 1..Len(nodes) :
                    isActive(nodes[i]) => compareRevIDs(nodes[1].revID, nodes[i].revID) >= 0

(* C13: hasConflict() returns true if and only if the tree holds two or     *)
(* more active nodes (Leaf set, Deleted clear), whatever the sorted flag.   *)

ActiveNodes(ns) == {i \in 0..(Len(ns) - 1) : isLeaf(At(ns, i)) /\ ~isDeleted(At(ns, i))}

C13_HasConflictCounts ==
    Returned("hasConflict") => (call.ret <=> Cardinality(ActiveNodes(nodes)) >= 2)

(* C14: no parent chain is cyclic: following parentIndex from any node      *)
(* reaches kNoParent in at most nodes.size() steps.                         *)

C14_NoCycle ==
    \A i \in 0..(Len(nodes) - 1) : ChainLength(nodes, i) <= Len(nodes)

(* C15: insertHistory inserts nothing and leaves the node vector, the       *)
(* sorted flag and the changed flag unchanged whenever it returns -1 or 0.  *)

C15_InsertHistoryNoOp ==
    Returned("insertHistory") /\ call.ret \in {-1, 0} => Snapshot = pre

\* insertHistory has returned -1 for a history whose newest revision parses and
\* was not in the tree, on a tree that holds nodes
C15_Witness ==
    /\ Returned("insertHistory") /\ call.ret = -1
    /\ Len(pre.nodes) > 0
    /\ RevIDParseCompacted(call.args.history[1]).ok
    /\ ~Present(pre.nodes, call.args.history[1])

(* C16: compareRevIDs is transitive over all byte strings: if a compares    *)
(* greater than b and b greater than c, then a compares greater than c, in  *)
(* whichever order the three strings are taken.                             *)

C16_CompareTransitive ==
    call.op = "compareRevIDs" =>
        /\ call.ret.ab > 0 /\ call.ret.bc > 0 => call.ret.ac > 0
        /\ call.ret.bc > 0 /\ call.ret.ca > 0 => call.ret.ba > 0
        /\ call.ret.ca > 0 /\ call.ret.ab > 0 => call.ret.cb > 0
        /\ call.ret.ac > 0 /\ call.ret.cb > 0 => call.ret.ab > 0
        /\ call.ret.ba > 0 /\ call.ret.ac > 0 => call.ret.bc > 0
        /\ call.ret.cb > 0 /\ call.ret.ba > 0 => call.ret.ca > 0

(* C17: compareRevIDs is antisymmetric over all byte strings: the sign of   *)
(* compareRevIDs(a, b) is the opposite of the sign of compareRevIDs(b, a).  *)

C17_CompareAntisymmetric ==
    call.op = "compareRevIDs" => Sign(call.ret.ab) = 0 - Sign(call.ret.ba)

\* a string that parses has been compared with one that does not, and they
\* are not equal
C17_Witness ==
    /\ call.op = "compareRevIDs"
    /\ RevIDParse(call.args.a).ok /\ ~RevIDParse(call.args.b).ok
    /\ call.ret.ab # 0

(* C18: decode(raw, seq, bodyOffset) records the bodyOffset it is given as  *)
(* the tree's bodyOffset: every node of the decoded tree whose inline body  *)
(* a later encode() drops (a node with a body that is neither a leaf nor    *)
(* New) gets from it, as its oldBodyOffset, the offset given to decode.     *)

C18_DecodeKeepsBodyOffset ==
    Returned("decode") =>
        \A i \in 1..Len(nodes) :
            Len(nodes[i].data) > 0 /\ ~isLeaf(nodes[i]) /\ ~isNew(nodes[i]) =>
                pruneBody(nodes[i], bodyOffset).oldBodyOffset = call.args.docOffset

(* C19: after encode() a node has an inline body only if it is a leaf or    *)
(* New; every node that had a body and is neither has lost it and has the   *)
(* tree's bodyOffset as its oldBodyOffset; the bodies of leaves and New     *)
(* nodes are as before; and no node ever has both an inline body and an     *)
(* oldBodyOffset other than 0.                                              *)

\* the node of ns with this revision ID
NodeOf(ns, revID) == At(ns, get(ns, revID))

C19_EncodeBodies ==
    /\ \A i \in 1..Len(nodes) : ~(Len(nodes[i].data) > 0 /\ nodes[i].oldBodyOffset # 0)
    /\ Returned("encode") =>
        /\ Len(nodes) = Len(pre.nodes)
        /\ \A i \in 1..Len(nodes) :
              Len(nodes[i].data) > 0 => isLeaf(nodes[i]) \/ isNew(nodes[i])
        /\ \A i \in 1..Len(pre.nodes) :
              LET before == pre.nodes[i]
                  after == NodeOf(nodes, before.revID)
              IN  /\ Present(nodes, before.revID)
                  /\ after.flags = before.flags
                  /\ IF isLeaf(before) \/ isNew(before)
                     THEN after.data = before.data
                          /\ after.oldBodyOffset = before.oldBodyOffset
                     ELSE /\ after.data = << >>
                          /\ Len(before.data) > 0 => after.oldBodyOffset = bodyOffset

\* encode has dropped the body of a node and kept the body of a leaf
C19_Witness ==
    /\ Returned("encode")
    /\ \E i \in 1..Len(pre.nodes) :
          Len(pre.nodes[i].data) > 0 /\ ~isLeaf(pre.nodes[i]) /\ ~isNew(pre.nodes[i])
    /\ \E i \in 1..Len(nodes) : Len(nodes[i].data) > 0 /\ isLeaf(nodes[i])

(* C20: for every reachable tree t, decode(encode(t)) yields a node vector  *)
(* equal to the node vector of t (same revision IDs, parent relation, Leaf  *)
(* and Deleted flags, sequences, bodies and offsets) except that the New    *)
(* flag is cleared and the nodes are in sort order, whatever default        *)
(* sequence decode is given.                                                *)

\* node a of the vector ns and node b of the vector ms have the same parent
SameParent(ns, a, ms, b) ==
    IF a.parentIndex = kNoParent \/ b.parentIndex = kNoParent
    THEN a.parentIndex = b.parentIndex
    ELSE IF InRange(ns, a.parentIndex) /\ InRange(ms, b.parentIndex)
    THEN At(ns, a.parentIndex).revID = At(ms, b.parentIndex).revID
    ELSE ~InRange(ns, a.parentIndex) /\ ~InRange(ms, b.parentIndex)

C20_RoundTrip ==
    Returned("encode") =>
        \A seq \in Sequences :
            LET t == pre.nodes
                d == decode(call.ret, seq, 0).nodes
            IN  /\ Len(d) = Len(t)
                /\ \A i \in 1..Len(t) :
                      /\ Present(d, t[i].revID)
                      /\ LET node == NodeOf(d, t[i].revID)
                         IN  /\ node.flags = t[i].flags \ {kNew}
                             /\ node.sequence = t[i].sequence
                             /\ node.data = t[i].data
                             /\ node.oldBodyOffset = t[i].oldBodyOffset
                             /\ SameParent(d, node, t, t[i])
                /\ \A i, j \in 1..Len(d) : i < j => MayPrecede(d[i], d[j])

(* C20 as amended: for a tree whose revision IDs are at most 255 bytes long, *)
(* decode(encode(t)) yields the node vector that encode() has left in t,    *)
(* node by node in the same order, except that the New flag is cleared and  *)
(* that every node whose sequence is 0 has the default sequence given to    *)
(* decode.                                                                  *)

C20_RoundTripAmended ==
    Returned("decode") /\ (\A i \in 1..Len(pre.nodes) : Len(pre.nodes[i].revID) <= 255) =>
        /\ Len(nodes) = Len(pre.nodes)
        /\ \A i \in 1..Len(nodes) :
              nodes[i] = [pre.nodes[i] EXCEPT
                             !.flags = @ \ {kNew},
                             !.sequence = IF @ = 0 THEN call.args.seq ELSE @]

\* a tree of two nodes, one with a body, one without, both New and without a
\* sequence, has been encoded and decoded with a default sequence that is not 0
C20_Witness ==
    /\ Returned("decode")
    /\ call.args.seq # 0
    /\ Len(pre.nodes) >= 2
    /\ \E i \in 1..Len(pre.nodes) :
          isNew(pre.nodes[i]) /\ pre.nodes[i].sequence = 0 /\ Len(pre.nodes[i].data) > 0
    /\ \E i \in 1..Len(pre.nodes) : Len(pre.nodes[i].data) = 0

(* C21: for every encoded tree b that encode() has made, decoding b, with   *)
(* any default sequence and body offset, and encoding the result again      *)
(* with no call in between gives an encoded tree identical to b.            *)

C21_ReencodeSame ==
    Returned("reencode") => call.ret = call.args.raw

(* C21 as amended: the same, for every b in which every raw node with a     *)
(* body is a leaf, decoded with a default sequence of 0 or holding no raw   *)
(* node with the sequence 0.                                                *)

\* the raw nodes of an encoded tree
RawNodes(raw) == {raw[i] : i \in 1..countRawNodes(raw)}

Canonical(raw, seq) ==
    \A r \in RawNodes(raw) :
        /\ kRevNodeHasData \in r.flags => kLeaf \in r.flags
        /\ seq = 0 \/ nodeFromRawNode(r).sequence # 0

C21_ReencodeSameAmended ==
    Returned("reencode") /\ Canonical(call.args.raw, call.args.seq) =>
        call.ret = call.args.raw

\* an encoded tree with a body in it, every node of it having a sequence, has
\* been decoded with a default sequence other than 0 and encoded again
C21_Witness ==
    /\ Returned("reencode")
    /\ Canonical(call.args.raw, call.args.seq)
    /\ call.args.seq # 0
    /\ \E r \in RawNodes(call.args.raw) : kRevNodeHasData \in r.flags

(* C22: a successful insert appends exactly one node at the end of the      *)
(* vector, with the flags Leaf and New (and Deleted iff requested), the     *)
(* sequence 0, the oldBodyOffset 0 and the index of the parent as its       *)
(* parentIndex (kNoParent when there is none); it clears the Leaf flag of   *)
(* the parent, sets changed, clears sorted iff the tree now has more than   *)
(* one node, and leaves the position and every other field of every node    *)
(* that was there unchanged.                                                *)

\* the index, before the call, of the parent the call names, or Null
ParentNamed ==
    IF call.args.parentRevID = nullslice THEN Null
    ELSE get(pre.nodes, call.args.parentRevID)

C22_InsertFrame ==
    Returned("insert") /\ call.ret # Null =>
        LET n == Len(pre.nodes)
            new == nodes[n + 1]
        IN  /\ Len(nodes) = n + 1
            /\ call.ret = n
            /\ new.revID = call.args.revID
            /\ new.flags = {kLeaf, kNew}
                            \cup (IF call.args.deleted THEN {kDeleted} ELSE {})
            /\ new.sequence = 0
            /\ new.oldBodyOffset = 0
            /\ new.parentIndex = (IF ParentNamed = Null THEN kNoParent
                                  ELSE ParentNamed)
            /\ \A i \in 1..n :
                nodes[i] = IF i - 1 = ParentNamed
                           THEN [pre.nodes[i] EXCEPT !.flags = @ \ {kLeaf}]
                           ELSE pre.nodes[i]
            /\ changed
            /\ sorted = (IF n + 1 > 1 THEN FALSE ELSE pre.sorted)

\* a third node has been inserted under a leaf of a sorted tree
C22_Witness ==
    /\ Returned("insert") /\ call.ret # Null
    /\ Len(nodes) = 3
    /\ pre.sorted
    /\ ParentNamed # Null /\ isLeaf(At(pre.nodes, ParentNamed))

(* C23: sort() only permutes the tree: the nodes (revID, flags, body,       *)
(* sequence) are the same before and after, and every node has the parent   *)
(* with the same revID, or no parent, before and after, the parentIndex     *)
(* values being renumbered as the nodes were moved; sort() on a tree that   *)
(* is sorted already changes nothing.                                       *)

\* what node i of ns has for a parent: none, the revID of a node, or an index
\* that is no node of the vector
ParentOf(ns, i) ==
    LET parent == At(ns, i).parentIndex
    IN  IF parent = kNoParent THEN <<"none">>
        ELSE IF InRange(ns, parent) THEN <<"node", At(ns, parent).revID>>
        ELSE <<"outside", parent>>

\* node i of ns but for its place and its parentIndex
Content(ns, i) ==
    [revID |-> At(ns, i).revID, flags |-> At(ns, i).flags,
     data |-> At(ns, i).data, sequence |-> At(ns, i).sequence,
     oldBodyOffset |-> At(ns, i).oldBodyOffset]

C23_SortPermutes ==
    Returned("sort") =>
        /\ \E perm \in Orderings(Len(pre.nodes)) :
            /\ Len(nodes) = Len(pre.nodes)
            /\ \A i \in 1..Len(nodes) :
                /\ Content(nodes, i - 1) = Content(pre.nodes, perm[i] - 1)
                /\ ParentOf(nodes, i - 1) = ParentOf(pre.nodes, perm[i] - 1)
        /\ pre.sorted =>
            nodes = pre.nodes /\ sorted = pre.sorted /\ changed = pre.changed

(* C24: compact() removes exactly the nodes whose revID has the size 0 and  *)
(* keeps the other nodes in the order they were in; every node kept whose   *)
(* parent is kept still has that node for its parent, every node kept whose *)
(* parent was removed has the parentIndex kNoParent, and every node kept    *)
(* that had no parent still has the parentIndex kNoParent.                  *)

\* prune or purge has returned after calling compact()
Compacted ==
    (Returned("prune") \/ Returned("purge")) /\ call.ret > 0

\* the node vector as the call that has returned handed it to compact()
BeforeCompact ==
    IF call.op = "purge"
    THEN purgeLoop([nodes |-> pre.nodes, revIDs |-> call.args.revIDs,
                    numPurged |-> 0, madeProgress |-> FALSE,
                    foundNonLeaf |-> FALSE, wild |-> FALSE, hung |-> FALSE]).nodes
    ELSE pruneFrom(pre.nodes, pre.sorted, 0, call.args.maxDepth, 0, FALSE).nodes

\* the index after compact() of the node that it found, unmarked, at index i
IndexKept(ns, i) == Cardinality({j \in 0..(i - 1) : ~marked(At(ns, j))})

C24_CompactRemovesMarked ==
    Compacted =>
        LET old == BeforeCompact
            kept == {i \in 0..(Len(old) - 1) : ~marked(At(old, i))}
        IN  /\ Len(nodes) = Cardinality(kept)
            /\ \A i \in kept :
                LET node == At(nodes, IndexKept(old, i))
                    parent == At(old, i).parentIndex
                IN  /\ Content(nodes, IndexKept(old, i)) = Content(old, i)
                    /\ parent = kNoParent => node.parentIndex = kNoParent
                    /\ InRange(old, parent) /\ marked(At(old, parent)) =>
                            node.parentIndex = kNoParent
                    /\ InRange(old, parent) /\ ~marked(At(old, parent)) =>
                            node.parentIndex = IndexKept(old, parent)

(* C25: whenever the sorted flag of the tree is true the node vector is in  *)
(* sort order (leaves before non-leaves, then non-deleted before deleted,   *)
(* then descending revision ID), in every state that insert,                *)
(* insertHistory, prune, purge and sort can lead to; purge and compact      *)
(* never leave sorted true on a vector that is out of order.                *)

InSortOrder(ns) ==
    \A i, j \in 1..Len(ns) : i < j => MayPrecede(ns[i], ns[j])

C25_SortedMeansInOrder ==
    fault = "ok" /\ sorted => InSortOrder(nodes)

(* C26: no two nodes of the tree have the same revID and no node left in    *)
(* the tree has an empty revID, in every state that insert (by parent ID),  *)
(* insertHistory, prune, purge and sort can lead to from the empty tree,    *)
(* seen between the calls.                                                  *)

C26_RevIDsUnique ==
    fault = "ok" =>
        /\ \A i, j \in 1..Len(nodes) : i # j => nodes[i].revID # nodes[j].revID
        /\ \A i \in 1..Len(nodes) : Len(nodes[i].revID) > 0

=============================================================================
